---- MODULE Spec2Model ----
(***************************************************************************)
(* Model of the two utilities of the repository:                           *)
(*   tools/migrate_styles.py  convert_style_calls (regex rewriter), main   *)
(*   tools/themes.py          ThemePalette, THEMES, DEFAULT_THEME,         *)
(*                            available                                    *)
(*                                                                         *)
(* Text is a sequence of lexemes.  Every character that the regular        *)
(* expressions treat specially is a lexeme of its own (the quote, the      *)
(* closing parenthesis, the bracket, comma, space, braces, letters); a     *)
(* keyword lexeme ("println!(", "style(", ".red(", ...) is a run of        *)
(* non-quote characters that ends in its only "(".  "(" and "." never      *)
(* occur as lexemes of their own, so a literal piece of a pattern can      *)
(* only match a text of lexemes on lexeme boundaries, and the lexeme-level *)
(* matcher below coincides with Python's character-level re on such texts. *)
(* "eprintln!(" is the letter "e" followed by "println!(", exactly as in   *)
(* the characters.                                                         *)
(***************************************************************************)
EXTENDS Integers, Sequences, FiniteSets

VARIABLES
  input, once, twice,                 \* convert_style_calls: argument, result, result of the result
  files, argv, stdout, stderr, exit,  \* main: file system and one process run
  dicts, palettes, handles, lastError \* themes: dict objects, palette objects, the caller's references

rewriterVars == <<input, once, twice>>
driverVars == <<files, argv, stdout, stderr, exit>>
themeVars == <<dicts, palettes, handles, lastError>>
vars == <<input, once, twice, files, argv, stdout, stderr, exit,
          dicts, palettes, handles, lastError>>

Q == "\""

(* ---------------------------------------------------------------------- *)
(* Regular expressions: a pattern is a sequence of atoms.                  *)
(* ---------------------------------------------------------------------- *)
Lit(s) == [k |-> "lit", s |-> s]
Open == [k |-> "open"]
Close == [k |-> "close"]
NotQuote1 == [k |-> "one"]
Greedy(c) == [k |-> "greedy", c |-> c]
Lazy(c) == [k |-> "lazy", c |-> c]
Ref(n) == [k |-> "ref", n |-> n]

Lits(ss) == [i \in 1..Len(ss) |-> Lit(ss[i])]

\* lexemes that are longer than one character
Keywords ==
  { "println!(", "print!(", "style(", ".bold(", ".dim(", ".on_black(",
    ".red(", ".green(", ".blue(", ".yellow(", ".cyan(", ".magenta(", ".white(",
    ".render(", ".render_reset(", "format!(",
    "Styles::bold_error(", "Styles::bold_success(", "Styles::header(",
    "Styles::bold_warning(", "Styles::bold(", "Styles::code(",
    "Styles::error(", "Styles::success(", "Styles::info(",
    "Styles::warning(", "Styles::debug(" }

\* membership of one lexeme in a character class, for a starred class:
\* [^"] (every lexeme but the quote is a run of such characters) and ]
InClass(c, tok) ==
  IF c = "notquote" THEN tok # Q ELSE tok = "]"

\* the characters that are lexemes of their own
Chars == {Q, ")", "]", ",", " ", "{", "}", ":", "E", "r", "o", "b", "a", "d", "x", "e"}

\* a single, unstarred [^"] consumes exactly one character
IsOneNotQuote(tok) == tok # Q /\ tok \notin Keywords

\* the number of the group that the atom p[k] opens or closes: Python
\* numbers groups by the position of their opening parenthesis
GroupNo(p, k) == Cardinality({j \in 1..k : p[j].k = "open"})

NoMatch == [ok |-> FALSE]
NoGroups == << <<0, 0>>, <<0, 0>> >>

\* the end of the longest run of lexemes of class c that starts at i
RECURSIVE RunEnd(_, _, _)
RunEnd(c, t, i) ==
  IF i <= Len(t) /\ InClass(c, t[i]) THEN RunEnd(c, t, i + 1) ELSE i

\* backtracking match of the atoms p[k..] against t from position i
RECURSIVE MatchAt(_, _, _, _, _)
RECURSIVE TryEnds(_, _, _, _, _, _, _)
MatchAt(p, k, t, i, g) ==
  IF k > Len(p) THEN [ok |-> TRUE, end |-> i, g |-> g]
  ELSE LET a == p[k] IN
    CASE a.k = "lit" ->
           IF i <= Len(t) /\ t[i] = a.s THEN MatchAt(p, k + 1, t, i + 1, g)
           ELSE NoMatch
      [] a.k = "one" ->
           IF i <= Len(t) /\ IsOneNotQuote(t[i])
           THEN MatchAt(p, k + 1, t, i + 1, g)
           ELSE NoMatch
      [] a.k = "open" ->
           MatchAt(p, k + 1, t, i, [g EXCEPT ![GroupNo(p, k)] = <<i, i>>])
      [] a.k = "close" ->
           MatchAt(p, k + 1, t, i,
                   [g EXCEPT ![GroupNo(p, k)] = <<g[GroupNo(p, k)][1], i>>])
      [] a.k = "greedy" -> TryEnds(p, k, t, g, RunEnd(a.c, t, i), i, -1)
      [] a.k = "lazy" -> TryEnds(p, k, t, g, i, RunEnd(a.c, t, i), 1)

\* the starred atom p[k] ends at j, then j + step, ..., last: first success
TryEnds(p, k, t, g, j, last, step) ==
  LET m == MatchAt(p, k + 1, t, j, g) IN
  IF m.ok THEN m
  ELSE IF j = last THEN NoMatch
  ELSE TryEnds(p, k, t, g, j + step, last, step)

\* re.search from position i: the leftmost match
RECURSIVE Search(_, _, _)
Search(p, t, i) ==
  IF i > Len(t) THEN NoMatch
  ELSE LET m == MatchAt(p, 1, t, i, NoGroups) IN
       IF m.ok THEN [ok |-> TRUE, start |-> i, end |-> m.end, g |-> m.g]
       ELSE Search(p, t, i + 1)

Slice(t, from, to) == IF to < from THEN << >> ELSE SubSeq(t, from, to)

\* expansion of a replacement template for one match
RECURSIVE Expand(_, _, _)
Expand(repl, t, g) ==
  IF repl = << >> THEN << >>
  ELSE LET a == Head(repl) IN
       (IF a.k = "ref" THEN Slice(t, g[a.n][1], g[a.n][2] - 1) ELSE <<a.s>>)
       \o Expand(Tail(repl), t, g)

\* re.sub(pattern, repl, content): the non-overlapping matches of the
\* SOURCE text, left to right; no pattern of the table matches the empty text
RECURSIVE ReSubFrom(_, _, _, _)
ReSubFrom(p, repl, t, i) ==
  LET m == Search(p, t, i) IN
  IF ~m.ok THEN Slice(t, i, Len(t))
  ELSE Slice(t, i, m.start - 1) \o Expand(repl, t, m.g)
       \o ReSubFrom(p, repl, t, m.end)

\* a substitution that keeps a text only when the pattern was found in it
ReSub_lossy(p, repl, t) ==
  IF Search(p, t, 1).ok THEN ReSubFrom(p, repl, t, 1) ELSE << >>

ReSub(p, repl, t) == ReSubFrom(p, repl, t, 1)


(* ---------------------------------------------------------------------- *)
(* The pattern table of convert_style_calls, in dictionary order.          *)
(* arg: "lit" for a quoted argument (greedy group of non-quotes between    *)
(* quotes), "var" for a bare one (lazy group of non-quotes);               *)
(* chain: the methods that follow; style: the named style of the template. *)
(* ---------------------------------------------------------------------- *)
Rule(arg, chain, style) == [arg |-> arg, chain |-> chain, style |-> style]

style_mappings ==
  << Rule("lit", <<".red(", ".bold(">>, "Styles::bold_error("),
     Rule("lit", <<".green(", ".bold(">>, "Styles::bold_success("),
     Rule("lit", <<".blue(", ".bold(">>, "Styles::header("),
     Rule("lit", <<".yellow(", ".bold(">>, "Styles::bold_warning("),
     Rule("lit", <<".cyan(", ".bold(">>, "Styles::bold("),
     Rule("lit", <<".magenta(", ".bold(">>, "Styles::code("),
     Rule("lit", <<".white(", ".bold(">>, "Styles::bold("),
     Rule("lit", <<".red(">>, "Styles::error("),
     Rule("lit", <<".green(">>, "Styles::success("),
     Rule("lit", <<".blue(">>, "Styles::info("),
     Rule("lit", <<".yellow(">>, "Styles::warning("),
     Rule("lit", <<".cyan(">>, "Styles::debug("),
     Rule("lit", <<".magenta(">>, "Styles::code("),
     Rule("lit", <<".white(">>, "Styles::bold("),
     Rule("lit", <<".dim(">>, "Styles::debug("),
     Rule("lit", <<".dim(", ".on_black(">>, "Styles::debug("),
     Rule("var", <<".red(", ".bold(">>, "Styles::bold_error("),
     Rule("var", <<".green(", ".bold(">>, "Styles::bold_success("),
     Rule("var", <<".blue(", ".bold(">>, "Styles::header("),
     Rule("var", <<".yellow(", ".bold(">>, "Styles::bold_warning("),
     Rule("var", <<".cyan(", ".bold(">>, "Styles::bold("),
     Rule("var", <<".magenta(", ".bold(">>, "Styles::code("),
     Rule("var", <<".white(", ".bold(">>, "Styles::bold("),
     Rule("var", <<".red(">>, "Styles::error("),
     Rule("var", <<".green(">>, "Styles::success("),
     Rule("var", <<".blue(">>, "Styles::info("),
     Rule("var", <<".yellow(">>, "Styles::warning("),
     Rule("var", <<".cyan(">>, "Styles::debug("),
     Rule("var", <<".magenta(">>, "Styles::code("),
     Rule("var", <<".white(">>, "Styles::bold(") >>

\* the methods of a chain as text: .red().bold() is .red( ) .bold( )
RECURSIVE ChainText(_)
ChainText(chain) ==
  IF chain = << >> THEN << >>
  ELSE <<Head(chain), ")">> \o ChainText(Tail(chain))

\* the key of a table entry: the pattern of the style call
RulePattern(r) ==
  (IF r.arg = "lit"
   THEN <<Lit("style("), Lit(Q), Open, Greedy("notquote"), Close, Lit(Q)>>
   ELSE <<Lit("style("), Open, Lazy("notquote"), Close>>)
  \o <<Lit(")")>> \o Lits(ChainText(r.chain))

\* the place in the table of the entry for an argument kind and a chain
TableIndex(arg, chain) ==
  (CHOOSE n \in 1..Len(style_mappings) :
     style_mappings[n].arg = arg /\ style_mappings[n].chain = chain)

\* templates in which a bold entry repeats the style of the plain entry
RuleReplacement_plain(r) ==
  LET s == style_mappings[TableIndex(r.arg, <<r.chain[1]>>)].style IN
  Lits(<<s, ")", ".render(", ")", ",", " ">>)
  \o (IF r.arg = "lit" THEN <<Lit(Q), Ref(1), Lit(Q)>> ELSE <<Ref(1)>>)
  \o Lits(<<",", " ", s, ")", ".render_reset(", ")">>)

\* the value of a table entry: the template, with its reference \1
RuleReplacement(r) ==
  Lits(<<r.style, ")", ".render(", ")", ",", " ">>)
  \o (IF r.arg = "lit" THEN <<Lit(Q), Ref(1), Lit(Q)>> ELSE <<Ref(1)>>)
  \o Lits(<<",", " ", r.style, ")", ".render_reset(", ")">>)

\* the leading fragment of the three wrapped contexts: a quote, a group of
\* one [^"] and a greedy run of ], a quote, a comma and a space
LeadingFragment ==
  <<Lit(Q), Open, NotQuote1, Greedy("rbracket"), Close,
    Lit(Q), Lit(","), Lit(" ")>>

\* macro( fragment <pattern> )  ->  macro("\1{}", <replacement>)
WrappedPattern(macro, r) ==
  Lits(macro) \o LeadingFragment \o RulePattern(r) \o <<Lit(")")>>

WrappedReplacement(macro, r) ==
  Lits(macro) \o <<Lit(Q), Ref(1), Lit("{"), Lit("}"), Lit(Q), Lit(","), Lit(" ")>>
  \o RuleReplacement(r) \o <<Lit(")")>>

\* a standalone pattern that does not ask for the closing parenthesis
StandalonePattern_open(r) ==
  <<Lit("println!(")>> \o RulePattern(r)

\* println!\(<pattern>\)  ->  println!("{}{}{}", <replacement>)
StandalonePattern(r) ==
  <<Lit("println!(")>> \o RulePattern(r) \o <<Lit(")")>>

StandaloneReplacement(r) ==
  Lits(<<"println!(", Q, "{", "}", "{", "}", "{", "}", Q, ",", " ">>)
  \o RuleReplacement(r) \o <<Lit(")")>>

PrintlnMacro == <<"println!(">>
EprintlnMacro == <<"e", "println!(">>
PrintMacro == <<"print!(">>

\* one iteration of the loop over the table
ApplyRule(r, content) ==
  LET c1 == ReSub(WrappedPattern(PrintlnMacro, r), WrappedReplacement(PrintlnMacro, r), content)
      c2 == ReSub(WrappedPattern(EprintlnMacro, r), WrappedReplacement(EprintlnMacro, r), c1)
      c3 == ReSub(WrappedPattern(PrintMacro, r), WrappedReplacement(PrintMacro, r), c2)
  IN  ReSub(StandalonePattern(r), StandaloneReplacement(r), c3)

\* the loop over the table: each iteration assigns content before the next
\* one starts (the test on Len(c) makes the evaluation of c happen here)
RECURSIVE ApplyRules(_, _, _)
ApplyRules(table, n, content) ==
  IF n > Len(table) THEN content
  ELSE LET c == ApplyRule(table[n], content) IN
       IF Len(c) >= 0 THEN ApplyRules(table, n + 1, c) ELSE c

convert_style_calls(content) == ApplyRules(style_mappings, 1, content)


(* ---------------------------------------------------------------------- *)
(* Input texts                                                             *)
(* ---------------------------------------------------------------------- *)
MaxFragLen == 2

Rules == {style_mappings[n] : n \in 1..Len(style_mappings)}
VarRules == {r \in Rules : r.arg = "var"}
Macros == {PrintlnMacro, EprintlnMacro, PrintMacro}
FragChars == {"E", "]"}

RECURSIVE SeqsUpTo(_, _)
SeqsUpTo(S, n) ==
  IF n = 0 THEN {<< >>}
  ELSE LET shorter == SeqsUpTo(S, n - 1) IN
       shorter \cup {Append(s, c) : s \in shorter, c \in S}

ExampleFragment == <<"E", "r", "r", "o", "r", ":", " ", "{", "}">>
Fragments == (SeqsUpTo(FragChars, MaxFragLen) \ {<< >>}) \cup {ExampleFragment, <<"x">>}

\* the payload that stands for a rule's argument
Payload(r) == IF r.arg = "lit" THEN <<"b", "a", "d">> ELSE <<"x">>
Argument(r, P) == IF r.arg = "lit" THEN <<Q>> \o P \o <<Q>> ELSE P

\* style(<argument>)<chain>
StyleCall(r, P) == <<"style(">> \o Argument(r, P) \o <<")">> \o ChainText(r.chain)

\* macro(style(...)...)
StandaloneCall(macro, r, P) == macro \o StyleCall(r, P) \o <<")">>

\* macro("F", style(...)...)
WrappedCall(macro, F, r, P) ==
  macro \o <<Q>> \o F \o <<Q, ",", " ">> \o StyleCall(r, P) \o <<")">>

\* println!(style(println!(style(a)<inner chain>))<outer chain>)
NestedCall(ro, ri) ==
  PrintlnMacro \o <<"style(">> \o StandaloneCall(PrintlnMacro, ri, <<"a">>)
  \o <<")">> \o ChainText(ro.chain) \o <<")">>

PlainTexts ==
  { << >>,
    <<"println!(", Q, "E", Q, ")">>,
    <<"style(", Q, "b", "a", "d", Q, ")", ".red(", ")">>,
    <<"format!(", "style(", "x", ")", ".red(", ")", ".bold(", ")", ")">>,
    <<"println!(", "style(", "x", ")", ".dim(", ")", ")">>,
    <<"println!(", "style(", "x", ")", ".dim(", ")", ".on_black(", ")", ")">>,
    <<"println!(", "style(", Q, "x", ")", ".red(", ")", ")">>,
    <<"println!(", Q, "E", Q, ",", "style(", "x", ")", ".red(", ")", ")">>,
    <<"println!(", "style(", "x", ")", ".bold(", ")", ".red(", ")", ")">> }

Inputs ==
  {StandaloneCall(m, r, Payload(r)) : m \in Macros, r \in Rules}
  \cup {WrappedCall(m, F, r, Payload(r)) : m \in Macros, F \in Fragments, r \in Rules}
  \cup {NestedCall(ro, ri) : ro \in VarRules, ri \in VarRules}
  \cup PlainTexts


(* ---------------------------------------------------------------------- *)
(* themes.py                                                               *)
(* ---------------------------------------------------------------------- *)
ThemePalette(pa, bg, fg, sa, al) ==
  [primary_accent |-> pa, background |-> bg, foreground |-> fg,
   secondary_accent |-> sa, alert |-> al]

Fields == {"primary_accent", "background", "foreground", "secondary_accent", "alert"}

\* the palette objects of the registry
InitialPalettes ==
  [id \in {"dark", "blue"} |->
     IF id = "dark"
     THEN ThemePalette("#BFB38F", "#262626", "#BFB38F", "#D99A4E", "#FF8A8A")
     ELSE ThemePalette("#BFB38F", "#383B73", "#BFB38F", "#BFB38F", "#FF8A8A")]

\* the module-level dict: theme name -> palette object
THEMES == [name \in {"ciapre-dark", "ciapre-blue"} |->
             IF name = "ciapre-dark" THEN "dark" ELSE "blue"]

DEFAULT_THEME == "ciapre-dark"

\* the dict object that holds THEMES
ThemesId == 1

\* an accessor that hands out the registry's own dict object
available_alias(ds) == [heap |-> ds, ret |-> ThemesId]

\* dict(THEMES): a new dict object with the entries of THEMES; the palette
\* objects are shared
available(ds) == [heap |-> Append(ds, ds[ThemesId]), ret |-> Len(ds) + 1]

\* assignment to a field of a dataclass that is not frozen
setattr_unfrozen(obj, field, value) ==
  [raised |-> FALSE, obj |-> [obj EXCEPT ![field] = value]]

\* obj.field = value on a frozen dataclass raises FrozenInstanceError
setattr(obj, field, value) == [raised |-> TRUE, obj |-> obj]

\* d[k] = p
SetItemDict(d, k, p) == [n \in DOMAIN d \cup {k} |-> IF n = k THEN p ELSE d[n]]

\* del d[k]
DelItemDict(d, k) == [n \in DOMAIN d \ {k} |-> d[n]]

MaxCalls == 2
Names == {"ciapre-dark", "ciapre-blue", "custom"}
Colors == {"#FFFFFF"}

InitThemes ==
  /\ dicts = <<THEMES>>
  /\ palettes = InitialPalettes
  /\ handles = {}
  /\ lastError = "none"

Available ==
  /\ Len(dicts) <= MaxCalls
  /\ dicts' = available(dicts).heap
  /\ handles' = handles \cup {available(dicts).ret}
  /\ lastError' = "none"
  /\ UNCHANGED <<palettes, rewriterVars, driverVars>>

\* the caller adds a key to a returned mapping or rebinds one
SetItem(h, k, p) ==
  /\ dicts' = [dicts EXCEPT ![h] = SetItemDict(dicts[h], k, p)]
  /\ lastError' = "none"
  /\ UNCHANGED <<palettes, handles, rewriterVars, driverVars>>

\* the caller deletes a key of a returned mapping
DelItem(h, k) ==
  /\ IF k \in DOMAIN dicts[h]
     THEN dicts' = [dicts EXCEPT ![h] = DelItemDict(dicts[h], k)]
          /\ lastError' = "none"
     ELSE dicts' = dicts /\ lastError' = "KeyError"
  /\ UNCHANGED <<palettes, handles, rewriterVars, driverVars>>

\* the caller assigns to a field of a palette reached through a mapping
SetField(h, k, f, v) ==
  /\ k \in DOMAIN dicts[h]
  /\ LET id == dicts[h][k]
         res == setattr(palettes[id], f, v)
     IN /\ palettes' = [palettes EXCEPT ![id] = res.obj]
        /\ lastError' = IF res.raised THEN "FrozenInstanceError" ELSE "none"
  /\ UNCHANGED <<dicts, handles, rewriterVars, driverVars>>

NextThemes ==
  \/ Available
  \/ \E h \in handles, k \in Names, p \in DOMAIN palettes : SetItem(h, k, p)
  \/ \E h \in handles, k \in Names : DelItem(h, k)
  \/ \E h \in handles, k \in Names, f \in Fields, v \in Colors : SetField(h, k, f, v)

(* ---------------------------------------------------------------------- *)
(* main                                                                    *)
(* ---------------------------------------------------------------------- *)
Paths == {"in.rs", "out.rs", "out2.rs"}
NoFile == [exists |-> FALSE, data |-> << >>]
File(data) == [exists |-> TRUE, data |-> data]

NotRun == -1
UsageLine == <<"Usage: python3 migrate_styles.py <input_file> <output_file>">>
ErrorLine(e, path) == <<"Error: ", e, path>>
SuccessLine(i, o) == <<"Successfully converted ", i, " to ", o>>

\* what the environment does to this run: nothing, deny the read, deny the write
Faults == {"none", "read", "write"}

Argvs ==
  { <<"migrate_styles.py", "in.rs", "out.rs">>,
    <<"migrate_styles.py", "out.rs", "out2.rs">>,
    <<"migrate_styles.py", "in.rs">> }

\* one run of the script
Main(args, fault) ==
  /\ UNCHANGED <<rewriterVars, themeVars>>
  /\ argv' = args
  /\ stderr' = << >>
  /\ IF Len(args) # 3
     THEN /\ stdout' = <<UsageLine>>
          /\ exit' = 1
          /\ UNCHANGED files
     ELSE LET input_file == args[2]
              output_file == args[3]
          IN
          IF ~files[input_file].exists
          THEN /\ stdout' = <<ErrorLine("FileNotFoundError", input_file)>>
               /\ exit' = 1
               /\ UNCHANGED files
          ELSE IF fault \in {"read", "write"}
          THEN /\ stdout' = <<ErrorLine("PermissionError",
                                        IF fault = "read" THEN input_file
                                        ELSE output_file)>>
               /\ exit' = 1
               /\ UNCHANGED files
          ELSE /\ files' = [files EXCEPT ![output_file] =
                              File(convert_style_calls(files[input_file].data))]
               /\ stdout' = <<SuccessLine(input_file, output_file)>>
               /\ exit' = 0

DriverInputs ==
  { StandaloneCall(PrintlnMacro, style_mappings[1], <<"b", "a", "d">>),
    StandaloneCall(PrintlnMacro, style_mappings[24], <<"x">>),
    StandaloneCall(PrintMacro, style_mappings[16], <<"b", "a", "d">>),
    WrappedCall(PrintMacro, <<"E", "]">>, style_mappings[21], <<"x">>),
    WrappedCall(EprintlnMacro, <<"E">>, style_mappings[8], <<"b", "a", "d">>),
    WrappedCall(PrintlnMacro, ExampleFragment, style_mappings[1], <<"b", "a", "d">>),
    NestedCall(style_mappings[24], style_mappings[24]),
    << >>,
    <<"println!(", Q, "E", Q, ")">>,
    <<"println!(", "style(", "x", ")", ".dim(", ")", ")">> }

IdleDriver ==
  /\ files = [p \in Paths |-> NoFile]
  /\ argv = << >>
  /\ stdout = << >>
  /\ stderr = << >>
  /\ exit = NotRun

InitDriver ==
  /\ \E t \in DriverInputs :
       files = [p \in Paths |-> IF p = "in.rs" THEN File(t) ELSE NoFile]
  /\ argv = << >>
  /\ stdout = << >>
  /\ stderr = << >>
  /\ exit = NotRun

NextDriver == \E args \in Argvs, fault \in Faults : Main(args, fault)

(* ---------------------------------------------------------------------- *)
(* convert_style_calls as an operation                                     *)
(* ---------------------------------------------------------------------- *)
NotYet == [done |-> FALSE, text |-> << >>]
Result(t) == [done |-> TRUE, text |-> t]

IdleRewriter == input = << >> /\ once = NotYet /\ twice = NotYet

InitRewriter == input \in Inputs /\ once = NotYet /\ twice = NotYet

\* convert_style_calls(input)
Convert ==
  /\ ~once.done
  /\ once' = Result(convert_style_calls(input))
  /\ UNCHANGED <<input, twice, driverVars, themeVars>>

\* convert_style_calls applied to its own result
Reconvert ==
  /\ once.done /\ ~twice.done
  /\ twice' = Result(convert_style_calls(once.text))
  /\ UNCHANGED <<input, once, driverVars, themeVars>>

NextRewriter == Convert \/ Reconvert

Init == InitRewriter /\ IdleDriver /\ InitThemes
Next == NextRewriter
Spec == Init /\ [][Next]_vars

DriverInit == IdleRewriter /\ InitDriver /\ InitThemes
SpecDriver == DriverInit /\ [][NextDriver]_vars

ThemesInit == IdleRewriter /\ IdleDriver /\ InitThemes
SpecThemes == ThemesInit /\ [][NextThemes]_vars

(* ---------------------------------------------------------------------- *)
(* Properties                                                              *)
(* ---------------------------------------------------------------------- *)
IsBold(r) == Len(r.chain) = 2 /\ r.chain[2] = ".bold("
PlainStyle(r) == style_mappings[TableIndex(r.arg, <<r.chain[1]>>)].style

\* the input is println!(<minimal call of rule r>) and has been converted
ConvertedStandalone(r) ==
  input = StandaloneCall(PrintlnMacro, r, Payload(r)) /\ once.done

\* the named style at the head of a rewritten standalone call
DestinationStyle(t) == t[12]

\* S.render(), <argument>, S.render_reset()
ThreeParts(style, argument) ==
  <<style, ")", ".render(", ")", ",", " ">> \o argument
  \o <<",", " ", style, ")", ".render_reset(", ")">>

ExpectedStandalone(r) ==
  <<"println!(", Q, "{", "}", "{", "}", "{", "}", Q, ",", " ">>
  \o ThreeParts(r.style, Argument(r, Payload(r))) \o <<")">>

ExpectedWrapped(m, F, r) ==
  m \o <<Q>> \o F \o <<"{", "}", Q, ",", " ">>
  \o ThreeParts(r.style, Argument(r, Payload(r))) \o <<")">>

\* no compound pattern (macro + table rule) matches anywhere in t
NoCompoundMatch(t) ==
  \A n \in 1..Len(style_mappings) :
    /\ ~Search(StandalonePattern(style_mappings[n]), t, 1).ok
    /\ \A m \in Macros : ~Search(WrappedPattern(m, style_mappings[n]), t, 1).ok

\* C1: convert_style_calls is idempotent: converting the result of a
\* conversion gives that result again.
C1_Idempotent == twice.done => twice.text = once.text

ExampleInput ==
  WrappedCall(PrintlnMacro, ExampleFragment, style_mappings[1], <<"b", "a", "d">>)

ExampleOutput ==
  <<"println!(", Q, "E", "r", "r", "o", "r", ":", " ", "{", "}", "{", "}", "{", "}", Q, ",", " ">>
  \o ThreeParts("Styles::bold_error(", <<Q, "b", "a", "d", Q>>) \o <<")">>

\* C2: the worked example: println!("Error: {}", style("bad").red().bold())
\* is rewritten to println!("Error: {}{}{}", Styles::bold_error().render(),
\* "bad", Styles::bold_error().render_reset()).
C2_WorkedExample ==
  (input = ExampleInput /\ once.done) => once.text = ExampleOutput

\* C3: a rewritten wrapped call with leading fragment F and payload P # F
\* has the format string F{} and the arguments begin marker, P, end marker.
C3_PayloadPreserved ==
  \A m \in Macros, F \in Fragments, r \in Rules :
    (/\ input = WrappedCall(m, F, r, Payload(r))
     /\ once.done /\ once.text # input
     /\ Payload(r) # F)
    => once.text = ExpectedWrapped(m, F, r)

\* C4: for every rule of the table, println!(<minimal call of the rule>) is
\* rewritten to println!("{}{}{}", S.render(), <payload>, S.render_reset())
\* with the rule's own style S on both sides.
C4_StandalonePerRule ==
  \A r \in Rules : ConvertedStandalone(r) => once.text = ExpectedStandalone(r)

C4_Witness ==
  /\ ConvertedStandalone(style_mappings[16])
  /\ once.text = ExpectedStandalone(style_mappings[16])

\* C5: a text in which no compound pattern matches is returned unchanged,
\* and every conversion returns a text.
C5_PassThrough ==
  once.done =>
    /\ once.text \in Seq(Keywords \cup Chars)
    /\ (NoCompoundMatch(input) => once.text = input)

C5_Witness ==
  /\ once.done
  /\ input = WrappedCall(EprintlnMacro, <<"E", "E">>, style_mappings[8], <<"b", "a", "d">>)
  /\ NoCompoundMatch(input)

\* C6: for every colour and both argument kinds, the bold rule and the
\* non-bold rule of that colour name different styles.
C6_BoldDiffers ==
  \A r \in Rules :
    (IsBold(r) /\ ConvertedStandalone(r))
    => DestinationStyle(once.text) # PlainStyle(r)

\* C6 as amended: the bold rule and the non-bold rule name different styles
\* for red, green, blue, yellow and cyan, and the same style for magenta and
\* white.
C6_BoldDiffersExceptMagentaWhite ==
  \A r \in Rules :
    (IsBold(r) /\ ConvertedStandalone(r))
    => ((DestinationStyle(once.text) = PlainStyle(r))
        <=> r.chain[1] \in {".magenta(", ".white("})

C6_Witness ==
  /\ ConvertedStandalone(style_mappings[1])
  /\ DestinationStyle(once.text) = "Styles::bold_error("

\* C7: every rule for white names Styles::bold and every rule for cyan
\* names Styles::debug.
C7_WhiteBoldCyanDebug ==
  \A r \in Rules :
    ConvertedStandalone(r) =>
      /\ r.chain[1] = ".white(" => DestinationStyle(once.text) = "Styles::bold("
      /\ r.chain[1] = ".cyan(" => DestinationStyle(once.text) = "Styles::debug("

\* C7 as amended: every rule for white names Styles::bold; the non-bold
\* rules for cyan name Styles::debug and the bold rules for cyan name
\* Styles::bold.
C7_WhiteBoldCyanSplit ==
  \A r \in Rules :
    ConvertedStandalone(r) =>
      /\ r.chain[1] = ".white(" => DestinationStyle(once.text) = "Styles::bold("
      /\ r.chain[1] = ".cyan(" =>
           DestinationStyle(once.text) =
             (IF IsBold(r) THEN "Styles::bold(" ELSE "Styles::debug(")

C7_Witness ==
  /\ ConvertedStandalone(style_mappings[21])
  /\ DestinationStyle(once.text) = "Styles::bold("

\* C8: a run with two arguments that cannot read or write reports the
\* failure on standard error and exits with 1; a run that reads and writes
\* prints a confirmation and exits with 0.
C8_FailureOnStderr ==
  Len(argv) = 3 =>
    \/ exit = 0 /\ stdout = <<SuccessLine(argv[2], argv[3])>> /\ stderr = << >>
    \/ /\ exit = 1
       /\ stdout = << >>
       /\ \E e \in {"FileNotFoundError", "PermissionError"}, p \in Paths :
            stderr = <<ErrorLine(e, p)>>

\* what the next available() call returns, palettes resolved
NextAvailable ==
  LET a == available(dicts)
      m == a.heap[a.ret]
  IN [n \in DOMAIN m |-> palettes[m[n]]]

OriginalRegistry == [n \in DOMAIN THEMES |-> InitialPalettes[THEMES[n]]]

\* C9: whatever the callers did to the mappings they were given, the next
\* available() returns a mapping equal to the original registry, and no
\* palette reached through a mapping has had a field reassigned.
C9_CopyIndependence ==
  /\ NextAvailable = OriginalRegistry
  /\ \A h \in handles : \A n \in DOMAIN dicts[h] :
       palettes[dicts[h][n]] = InitialPalettes[dicts[h][n]]

C9_Witness ==
  /\ lastError = "FrozenInstanceError"
  /\ \E h1 \in handles, h2 \in handles :
       h1 < h2 /\ "custom" \in DOMAIN dicts[h1] /\ DEFAULT_THEME \notin DOMAIN dicts[h1]

\* C10: DEFAULT_THEME is a key of the mapping that available() returns, and
\* its palette is the ciapre-dark palette with background #262626.
C10_DefaultPresent ==
  /\ DEFAULT_THEME \in DOMAIN NextAvailable
  /\ NextAvailable[DEFAULT_THEME] =
       ThemePalette("#BFB38F", "#262626", "#BFB38F", "#D99A4E", "#FF8A8A")

C10_Witness ==
  /\ lastError = "FrozenInstanceError"
  /\ \E h \in handles : DEFAULT_THEME \notin DOMAIN dicts[h]
====
